---- MODULE Spec2Model ----
(***************************************************************************)
(* FavelasDataCleaner (src/data_cleaner/main.py): a fluent pipeline over   *)
(* one in-memory Table (self.df).  Every public method is one action; the  *)
(* Polars operations the methods call are operators computed as Polars     *)
(* computes them.                                                          *)
(***************************************************************************)
EXTENDS Integers, Sequences, FiniteSets, TLC

(***************************************************************************)
(* Values.  A cell is null, an integer or a string; a string is the        *)
(* sequence of its characters, so that trimming is computed.               *)
(***************************************************************************)
Null == [k |-> "null", i |-> 0, s |-> <<>>]
I(n) == [k |-> "int", i |-> n, s |-> <<>>]
S(x) == [k |-> "str", i |-> 0, s |-> x]

IsNull(v) == v.k = "null"

Whitespace == {" "}

Range(q) == {q[j] : j \in 1..Len(q)}

RECURSIVE LStrip(_)
LStrip(x) == IF x # <<>> /\ Head(x) \in Whitespace THEN LStrip(Tail(x)) ELSE x

RECURSIVE RStrip(_)
RStrip(x) ==
    IF x # <<>> /\ x[Len(x)] \in Whitespace THEN RStrip(SubSeq(x, 1, Len(x) - 1)) ELSE x

\* Mutant: only the leading whitespace is removed.
StripChars_LeadingOnly(v) == IF v.k = "str" THEN S(LStrip(v.s)) ELSE v

\* pl.col(col).str.strip_chars(): null stays null, a string loses its leading
\* and trailing whitespace.
StripChars(v) == IF v.k = "str" THEN S(RStrip(LStrip(v.s))) ELSE v

(***************************************************************************)
(* Tables.  cols is the ordered list of column names, dtypes the type of   *)
(* each column, rows the sequence of rows (functions from column name to   *)
(* cell).  A DataFrame without columns has no rows.                        *)
(***************************************************************************)
NONE == [cols |-> <<"<None>">>, dtypes |-> <<>>, rows |-> <<>>]

Table(cols, dtypes, rows) == [cols |-> cols, dtypes |-> dtypes, rows |-> rows]

ColSet(t) == Range(t.cols)

Height(t) == Len(t.rows)

\* df.select(columns): the named columns in the order given; selecting no
\* column leaves a DataFrame of shape (0, 0).
Select(t, columns) ==
    LET cs == Range(columns)
    IN  Table(columns,
              [c \in cs |-> t.dtypes[c]],
              IF columns = <<>> THEN <<>>
              ELSE [j \in 1..Height(t) |-> [c \in cs |-> t.rows[j][c]]])

\* ~pl.all_horizontal(pl.all().is_null()) is false exactly on a row whose
\* every value is null.
AllNull(t, r) == \A c \in ColSet(t) : IsNull(r[c])

\* The subsequence of q at the positions satisfying Keep, in order.
RECURSIVE Pick(_, _, _)
Pick(q, keep, j) ==
    IF j > Len(q) THEN <<>>
    ELSE IF j \in keep THEN <<q[j]>> \o Pick(q, keep, j + 1)
    ELSE Pick(q, keep, j + 1)

\* df.filter(mask): the rows at the positions of `keep`, original order.
FilterAt(t, keep) == [t EXCEPT !.rows = Pick(t.rows, keep, 1)]

(***************************************************************************)
(* df.unique(subset=[key]) with the defaults keep="any" and                *)
(* maintain_order=False: one row per distinct key value (null is one key   *)
(* value); Polars promises neither which row of a group is kept nor the    *)
(* order of the result, so every such choice is a possible outcome.        *)
(***************************************************************************)
KeyValues(t, key) == {t.rows[j][key] : j \in 1..Height(t)}

UniquePicks(t, key) ==
    LET n == Height(t)
        m == Cardinality(KeyValues(t, key))
    IN  {p \in [1..m -> 1..n] : {t.rows[p[a]][key] : a \in 1..m} = KeyValues(t, key)}

UniqueResults(t, key) ==
    {[t EXCEPT !.rows = [a \in 1..Len(p) |-> t.rows[p[a]]]] : p \in UniquePicks(t, key)}

\* Mutant: the negation of the mask is lost, so only the all-null rows stay.
DropAllNullRows_MaskNotNegated(t) ==
    FilterAt(t, {j \in 1..Height(t) : AllNull(t, t.rows[j])})

\* df.filter(~pl.all_horizontal(pl.all().is_null()))
DropAllNullRows(t) ==
    FilterAt(t, {j \in 1..Height(t) : ~AllNull(t, t.rows[j])})

(***************************************************************************)
(* pl.read_excel(file_path, sheet_id=sheet_id) with its defaults           *)
(* drop_empty_rows=True, drop_empty_cols=True, raise_if_empty=True.  A row *)
(* of the sheet without a value is omitted.  Every column of the sheets    *)
(* below has a header, so drop_empty_cols omits none.  The dtype of a      *)
(* column is inferred from its cells; for a column without a value it is   *)
(* the reader's choice, Null or String.                                    *)
(***************************************************************************)
DropEmptyRows(sheet) ==
    FilterAt(sheet, {j \in 1..Height(sheet) : ~AllNull(sheet, sheet.rows[j])})

HasValue(t, c) == \E j \in 1..Height(t) : ~IsNull(t.rows[j][c])

EmptyColumnDtypes == {"Null", "String"}

InferDtypes(t, empty) ==
    [t EXCEPT !.dtypes = [c \in ColSet(t) |-> IF HasValue(t, c) THEN t.dtypes[c] ELSE empty]]

ReadExcelResults(sheet) ==
    {InferDtypes(DropEmptyRows(sheet), empty) : empty \in EmptyColumnDtypes}

\* [col for col, dtype in zip(df.columns, df.dtypes) if dtype == pl.String]
StringCols(t) == {c \in ColSet(t) : t.dtypes[c] = "String"}

\* Mutant: the string columns are left as they are.
StripStringCols_NoTrim(t) == t

\* df.with_columns([pl.col(col).str.strip_chars().alias(col) for col in string_cols])
StripStringCols(t) ==
    [t EXCEPT !.rows =
        [j \in 1..Height(t) |->
            [c \in ColSet(t) |->
                IF c \in StringCols(t) THEN StripChars(t.rows[j][c]) ELSE t.rows[j][c]]]]

(***************************************************************************)
(* remove_high_null_columns.  The threshold is given in hundredths, and    *)
(* null_count / len(df) <= threshold is decided on the integers: for the   *)
(* thresholds and row counts used here the float comparison agrees.        *)
(***************************************************************************)
NullCount(t, c) == Cardinality({j \in 1..Height(t) : IsNull(t.rows[j][c])})

\* Mutant: the comparison is strict, so a column exactly at the threshold goes.
KeepsColumn_Strict(t, c, threshold) == NullCount(t, c) * 100 < threshold * Height(t)

KeepsColumn(t, c, threshold) == NullCount(t, c) * 100 <= threshold * Height(t)

ColumnsToKeep(t, threshold) ==
    Pick(t.cols, {j \in 1..Len(t.cols) : KeepsColumn(t, t.cols[j], threshold)}, 1)

(***************************************************************************)
(* Row predicates (pl.Expr): a conjunction of clauses, each comparing one  *)
(* column with a literal.  A comparison on a null is null; & is Kleene     *)
(* conjunction; filter keeps the rows on which the predicate is true.      *)
(***************************************************************************)
Clause(col, op, val) == [col |-> col, op |-> op, val |-> val]

EvalClause(r, cl) ==
    LET v == r[cl.col]
    IN  IF IsNull(v) THEN "null"
        ELSE IF CASE cl.op = ">"  -> v.i > cl.val
                  [] cl.op = "<"  -> v.i < cl.val
                  [] cl.op = ">=" -> v.i >= cl.val
                  [] cl.op = "<=" -> v.i <= cl.val
                  [] cl.op = "len_chars>" -> Len(v.s) > cl.val
             THEN "true" ELSE "false"

\* Mutant: the clauses are joined by | instead of &.
EvalCondition_AnyClause(r, condition) ==
    LET vs == {EvalClause(r, condition[j]) : j \in 1..Len(condition)}
    IN  IF "true" \in vs THEN "true"
        ELSE IF "null" \in vs THEN "null"
        ELSE "false"

EvalCondition(r, condition) ==
    LET vs == {EvalClause(r, condition[j]) : j \in 1..Len(condition)}
    IN  IF "false" \in vs THEN "false"
        ELSE IF "null" \in vs THEN "null"
        ELSE "true"

\* The dtype a clause needs of its column: a numeric comparison of a String
\* column, or str.len_chars() of a numeric one, is rejected by Polars.
ClauseTypeOk(t, cl) ==
    IF cl.op = "len_chars>" THEN t.dtypes[cl.col] = "String"
    ELSE t.dtypes[cl.col] # "String"

ConditionCols(condition) == {condition[j].col : j \in 1..Len(condition)}

\* df.filter(condition)
FilterRowsResult(t, condition) ==
    FilterAt(t, {j \in 1..Height(t) : EvalCondition(t.rows[j], condition) = "true"})

(***************************************************************************)
(* add_geographic_aggregations: group_by(keys).agg(n_unique ...) and the   *)
(* left joins.                                                             *)
(***************************************************************************)
MunKeys == <<"CD_MUN", "NM_MUN", "CD_UF", "NM_UF">>

UfKeys == <<"CD_UF", "NM_UF">>

\* alias |-> the column whose distinct values are counted
MunAggs == <<[alias |-> "total_fcu_mun", of |-> "CD_FCU"],
             [alias |-> "total_setores_mun", of |-> "CD_SETOR"]>>

\* Mutant: total_fcu_uf counts the distinct CD_UF of the state.
UfAggs_FcuCountsStates ==
    <<[alias |-> "total_fcu_uf", of |-> "CD_UF"],
      [alias |-> "total_setores_uf", of |-> "CD_SETOR"],
      [alias |-> "total_municipios_uf", of |-> "CD_MUN"]>>

UfAggs == <<[alias |-> "total_fcu_uf", of |-> "CD_FCU"],
            [alias |-> "total_setores_uf", of |-> "CD_SETOR"],
            [alias |-> "total_municipios_uf", of |-> "CD_MUN"]>>

AggregationCols == Range(MunKeys) \cup {"CD_FCU", "CD_SETOR"}

KeyOf(r, keys) == [c \in Range(keys) |-> r[c]]

\* Mutant: the rows of the group are counted (count) instead of the distinct
\* values (n_unique).
NUnique_CountsRows(t, members, c) == Cardinality(members)

\* pl.col(c).n_unique() over the rows at `members`: null counts as one value.
NUnique(t, members, c) == Cardinality({t.rows[j][c] : j \in members})

\* df.group_by(keys).agg([...]): one row per distinct key combination (nulls
\* form groups like any value), carrying the distinct counts.
GroupByAgg(t, keys, aggs) ==
    [on   |-> keys,
     cols |-> [a \in 1..Len(aggs) |-> aggs[a].alias],
     rows |-> {[key |-> g,
                val |-> LET members == {j \in 1..Height(t) : KeyOf(t.rows[j], keys) = g}
                        IN  [a \in {aggs[b].alias : b \in 1..Len(aggs)} |->
                                LET ag == CHOOSE x \in Range(aggs) : x.alias = a
                                IN  I(NUnique(t, members, ag.of))]]
               : g \in {KeyOf(t.rows[j], keys) : j \in 1..Height(t)}}]

\* The name a joined-in column takes: Polars appends "_right" to a right
\* column whose name the left table already has.
JoinedName(left, c) == IF c \in ColSet(left) THEN c \o "_right" ELSE c

JoinedCols(left, right) == [a \in 1..Len(right.cols) |-> JoinedName(left, right.cols[a])]

\* The join fails (DuplicateError) when a renamed column exists already.
JoinDuplicate(left, right) ==
    \E a \in 1..Len(right.cols) :
        /\ right.cols[a] \in ColSet(left)
        /\ JoinedName(left, right.cols[a]) \in ColSet(left)

\* The right rows a left row joins with: equal key values, and a null key
\* value matches nothing (nulls_equal is False by default).
Matches(r, right) ==
    {g \in right.rows :
        /\ \A c \in Range(right.on) : ~IsNull(r[c])
        /\ g.key = KeyOf(r, right.on)}

RECURSIVE SetToSeq(_)
SetToSeq(A) ==
    IF A = {} THEN <<>>
    ELSE LET x == CHOOSE y \in A : TRUE IN <<x>> \o SetToSeq(A \ {x})

Extend(left, right, r, val) ==
    [c \in ColSet(left) \cup Range(JoinedCols(left, right)) |->
        IF c \in ColSet(left) THEN r[c]
        ELSE val[right.cols[CHOOSE a \in 1..Len(right.cols) : JoinedCols(left, right)[a] = c]]]

NullVal(right) == [a \in Range(right.cols) |-> Null]

\* Mutant: how="inner", a left row without a match is dropped.
RECURSIVE JoinRows_Inner(_, _, _)
JoinRows_Inner(left, right, j) ==
    IF j > Height(left) THEN <<>>
    ELSE LET r == left.rows[j]
             ms == SetToSeq(Matches(r, right))
         IN  [a \in 1..Len(ms) |-> Extend(left, right, r, ms[a].val)]
             \o JoinRows_Inner(left, right, j + 1)

\* how="left": every left row once per matching right row, or once with nulls
\* in the joined-in columns when nothing matches.
RECURSIVE JoinRows(_, _, _)
JoinRows(left, right, j) ==
    IF j > Height(left) THEN <<>>
    ELSE LET r == left.rows[j]
             ms == SetToSeq(Matches(r, right))
         IN  (IF ms = <<>> THEN <<Extend(left, right, r, NullVal(right))>>
              ELSE [a \in 1..Len(ms) |-> Extend(left, right, r, ms[a].val)])
             \o JoinRows(left, right, j + 1)

LeftJoin(left, right) ==
    Table(left.cols \o JoinedCols(left, right),
          [c \in ColSet(left) \cup Range(JoinedCols(left, right)) |->
              IF c \in ColSet(left) THEN left.dtypes[c] ELSE "UInt32"],
          JoinRows(left, right, 1))

RowOrders(n) == {p \in [1..n -> 1..n] : Range(p) = 1..n}

\* join(..., maintain_order="none"), the default: the row order of the result
\* is not specified.
Reordered(t) ==
    {[t EXCEPT !.rows = [a \in 1..Height(t) |-> t.rows[p[a]]]] : p \in RowOrders(Height(t))}

MunCounts(t) == GroupByAgg(t, MunKeys, MunAggs)

UfCounts(t) == GroupByAgg(t, UfKeys, UfAggs)

\* Whether one of the two joins raises DuplicateError.
AggregationDuplicate(t) ==
    \/ JoinDuplicate(t, MunCounts(t))
    \/ JoinDuplicate(LeftJoin(t, MunCounts(t)), UfCounts(t))

AggregationResults(t) ==
    Reordered(LeftJoin(LeftJoin(t, MunCounts(t)), UfCounts(t)))

(***************************************************************************)
(* Inputs: the sheets the source workbook may hold.  Rows are drawn from   *)
(* small pools chosen to contain duplicated keys, empty rows, null keys,   *)
(* untrimmed and blank names and out-of-range codes.                       *)
(***************************************************************************)
MaxRows == 2

MaxDeepRows == 3

Schema == <<"CD_SETOR", "CD_FCU", "NM_FCU", "CD_MUN", "NM_MUN", "CD_UF", "NM_UF">>

SchemaTypes ==
    [c \in Range(Schema) |-> IF c \in {"NM_FCU", "NM_MUN", "NM_UF"} THEN "String" ELSE "Int64"]

Row(setor, fcu, nmfcu, mun, nmmun, uf, nmuf) ==
    [CD_SETOR |-> setor, CD_FCU |-> fcu, NM_FCU |-> nmfcu, CD_MUN |-> mun,
     NM_MUN |-> nmmun, CD_UF |-> uf, NM_UF |-> nmuf]

\* A valid row; a second row with the same CD_SETOR and an untrimmed name; two
\* rows of another state; a row with a null key, a blank name, a null state
\* name and an out-of-range CD_UF; a row whose only value is its state name;
\* an empty row.
RowA == Row(I(1), I(1), S(<<"a">>), I(1), S(<<"m">>), I(11), S(<<"x">>))

RowB == Row(I(1), I(2), S(<<"b">>), I(1), S(<<" ", "m">>), I(11), S(<<"x">>))

RowC == Row(I(2), I(1), S(<<"a">>), I(2), S(<<"n">>), I(12), S(<<"y">>))

RowD == Row(I(3), I(2), S(<<"b">>), I(2), S(<<"n">>), I(12), S(<<"y">>))

RowE == Row(Null, I(2), S(<<" ">>), I(2), S(<<"n">>), I(54), Null)

RowF == Row(Null, Null, Null, Null, Null, Null, S(<<"z">>))

RowN == Row(Null, Null, Null, Null, Null, Null, Null)

RowPool == {RowA, RowB, RowC, RowD, RowE}

SmallRowPool == {RowA, RowE, RowF, RowN}

\* A sheet whose CD_SETOR cells are text: the key column is String.
TextKeySchema == <<"CD_SETOR", "CD_FCU">>

TextKeyTypes == [c \in Range(TextKeySchema) |-> IF c = "CD_SETOR" THEN "String" ELSE "Int64"]

TextKeyPool ==
    { [CD_SETOR |-> S(<<"1">>), CD_FCU |-> I(1)],
      [CD_SETOR |-> S(<<"1", " ">>), CD_FCU |-> I(2)] }

\* The one-column table of the population scenario.
PopSchema == <<"population">>

PopTypes == [c \in Range(PopSchema) |-> "Int64"]

PopPool == {[population |-> I(v)] : v \in {-5, 100, 25000000, 500}}

SeqsUpTo(P, n) == UNION {[1..m -> P] : m \in 0..n}

SheetsOf(pool, n) ==
    {Table(Schema, SchemaTypes, rows) : rows \in SeqsUpTo(pool, n)}
    \cup {Table(TextKeySchema, TextKeyTypes, rows) : rows \in SeqsUpTo(TextKeyPool, n)}

\* The sheets of the specification of the whole class, with empty rows, and
\* the larger ones of the specifications of one stage.
Sheets == SheetsOf(SmallRowPool, MaxRows)

DeepSheets == SheetsOf(RowPool, MaxDeepRows)

\* The same with the row of a single value: sheets of which every column holds
\* a null, and rows left without a value by a selection of columns.
SparseSheets == SheetsOf(RowPool \cup {RowF}, MaxDeepRows)

\* Every arrangement of the scenario's population values, repeats included.
PopSheets ==
    {Table(PopSchema, PopTypes, rows) : rows \in SeqsUpTo(PopPool, Cardinality(PopPool))}

\* The arguments the callers pass.
Thresholds == {0, 49, 50, 100}

ColumnLists ==
    { <<>>,
      <<"NM_UF", "CD_UF">>,
      <<"CD_FCU", "GINI", "CD_SETOR">>,
      <<"GINI">> }

\* The predicate of main(), lines 249-264.
QualityFilter ==
    << Clause("CD_SETOR", ">", 0), Clause("CD_FCU", ">", 0), Clause("CD_MUN", ">", 0),
       Clause("CD_UF", ">", 0),
       Clause("NM_FCU", "len_chars>", 0), Clause("NM_MUN", "len_chars>", 0),
       Clause("NM_UF", "len_chars>", 0),
       Clause("CD_UF", ">=", 11), Clause("CD_UF", "<=", 53) >>

PopulationRange == <<Clause("population", ">", 0), Clause("population", "<", 20000000)>>

Conditions == {QualityFilter, PopulationRange, <<Clause("CD_SETOR", ">", 2)>>}

\* A directory is the sequence of its parts below the working directory.
CurrentDir == <<>>

\* A path is its directory, the stem of its last part and the suffix of that
\* part ("" when it has none).
OutputPaths ==
    {[parent |-> <<"out">>, name |-> "favelas_comunidades_2022_cleaned", suffix |-> ""]}

Formats == {"parquet", "csv", "excel", "json"}

SupportedFormats == {"parquet", "csv", "excel"}

(***************************************************************************)
(* State.                                                                  *)
(***************************************************************************)
VARIABLES
    source,   \* the sheet of the workbook at file_path, NONE when it cannot be read
    df,       \* self.df: NONE until load_data succeeds
    dirs,     \* the directories that exist
    files,    \* the output files that exist
    written,  \* the output files this process has created or overwritten
    call,     \* the last method called, with its arguments
    outcome,  \* how that call ended: "ok" or the error raised
    report,   \* the counts that call printed
    pc,       \* the statement main() is at, "" when main() is not running
    done,     \* the calls main() has made that returned, in order
    dash      \* the dashboard: the parquet file it reads and its last run

vars == <<source, df, dirs, files, written, call, outcome, report, pc, done, dash>>

NoCall == [op |-> "", columns |-> <<>>, condition |-> <<>>, threshold |-> 0,
           output_path |-> [parent |-> <<>>, name |-> "", suffix |-> ""], format |-> ""]

Calling(op) == [NoCall EXCEPT !.op = op]

NoReport == [initial_rows |-> 0, dup_removed |-> 0, null_removed |-> 0,
             removed_rows |-> 0, removed_cols |-> {}]

NotLoaded == "ValueError: Data not loaded. Call load_data() first."

\* The dashboard before its first run.  file is the table held by
\* favelas_comunidades_2022_cleaned.parquet (NONE when the file is missing),
\* df the table main() of the dashboard loaded, announced the pair N, M of
\* "Mostrando N registros de M", shown the table displayed and csv the table
\* offered for download (NONE when the run did not get there).
NoDash == [file |-> NONE, df |-> NONE, page |-> "", selected_states |-> {}, query |-> <<>>,
           outcome |-> "", announced |-> <<>>, shown |-> NONE, csv |-> NONE]

\* A fresh FavelasDataCleaner.
Constructed(sheets) ==
    /\ dash = NoDash
    /\ source \in sheets \cup {NONE}
    /\ df = NONE
    /\ dirs = {CurrentDir}
    /\ written = {}
    /\ call = NoCall
    /\ outcome = "ok"
    /\ report = NoReport

InitWith(sheets) == Constructed(sheets) /\ files = {} /\ pc = "" /\ done = <<>>

Init == InitWith(Sheets)

\* A call that raises before it changes anything.
Raises(c, error) ==
    /\ call' = c
    /\ outcome' = error
    /\ report' = NoReport
    /\ UNCHANGED <<source, df, dirs, files, written>>

\* A call that returns, leaving table t.
Returns(c, t, rep) ==
    /\ call' = c
    /\ outcome' = "ok"
    /\ report' = rep
    /\ df' = t
    /\ UNCHANGED <<source, dirs, files, written>>

(***************************************************************************)
(* The methods of FavelasDataCleaner.                                      *)
(***************************************************************************)
\* Mutant: the Table reference is cleared before the workbook is read.
load_data_ClearsTableFirst ==
    IF source = NONE
    THEN /\ call' = Calling("load_data")
         /\ outcome' = "FileNotFoundError"
         /\ report' = NoReport
         /\ df' = NONE
         /\ UNCHANGED <<source, dirs, files, written>>
    ELSE \/ \E t \in ReadExcelResults(source) : Returns(Calling("load_data"), t, NoReport)
         \/ /\ Height(DropEmptyRows(source)) = 0
            /\ call' = Calling("load_data")
            /\ outcome' = "NoDataError"
            /\ report' = NoReport
            /\ df' = NONE
            /\ UNCHANGED <<source, dirs, files, written>>

\* self.df = pl.read_excel(...): the assignment happens when the read returns.
\* A sheet left without a data row is read as a Table of zero rows or, with
\* raise_if_empty, refused (NoDataError), as the reader decides.
load_data ==
    IF source = NONE THEN Raises(Calling("load_data"), "FileNotFoundError")
    ELSE \/ \E t \in ReadExcelResults(source) : Returns(Calling("load_data"), t, NoReport)
         \/ /\ Height(DropEmptyRows(source)) = 0
            /\ Raises(Calling("load_data"), "NoDataError")

\* Mutant: the table of null counts is assigned to self.df.
show_info_KeepsNullCounts ==
    IF df = NONE THEN Raises(Calling("show_info"), NotLoaded)
    ELSE Returns(Calling("show_info"),
                 [df EXCEPT !.rows = <<[c \in ColSet(df) |-> I(NullCount(df, c))]>>],
                 NoReport)

show_info ==
    IF df = NONE THEN Raises(Calling("show_info"), NotLoaded)
    ELSE Returns(Calling("show_info"), df, NoReport)

clean_data ==
    IF df = NONE THEN Raises(Calling("clean_data"), NotLoaded)
    ELSE IF "CD_SETOR" \notin ColSet(df) THEN Raises(Calling("clean_data"), "ColumnNotFoundError")
    ELSE \E u \in UniqueResults(df, "CD_SETOR") :
            LET v == DropAllNullRows(u)
            IN  Returns(Calling("clean_data"), StripStringCols(v),
                        [NoReport EXCEPT !.initial_rows = Height(df),
                                         !.dup_removed = Height(df) - Height(u),
                                         !.null_removed = Height(u) - Height(v)])

\* Mutant: the columns found are taken in the order of the Table.
PresentColumns_TableOrder(t, columns) ==
    Pick(t.cols, {j \in 1..Len(t.cols) : t.cols[j] \in Range(columns)}, 1)

\* columns = [col for col in columns if col in self.df.columns]
PresentColumns(t, columns) ==
    Pick(columns, {j \in 1..Len(columns) : columns[j] \in ColSet(t)}, 1)

\* Mutant: the select is applied even when no requested name is left.
filter_necessary_columns_SelectsNothing(columns) ==
    LET c == [Calling("filter_necessary_columns") EXCEPT !.columns = columns]
        present == PresentColumns(df, columns)
    IN  IF df = NONE THEN Raises(c, NotLoaded)
        ELSE Returns(c, Select(df, present), NoReport)

\* columns = None and columns = [] take the same branch of "if columns:";
\* both are the empty list here.
filter_necessary_columns(columns) ==
    LET c == [Calling("filter_necessary_columns") EXCEPT !.columns = columns]
        present == PresentColumns(df, columns)
    IN  IF df = NONE THEN Raises(c, NotLoaded)
        ELSE IF present # <<>> THEN Returns(c, Select(df, present), NoReport)
        ELSE Returns(c, df, NoReport)

filter_rows(condition) ==
    LET c == [Calling("filter_rows") EXCEPT !.condition = condition]
    IN  IF df = NONE THEN Raises(c, NotLoaded)
        ELSE IF ~(ConditionCols(condition) \subseteq ColSet(df))
             THEN Raises(c, "ColumnNotFoundError")
        ELSE IF \E j \in 1..Len(condition) : ~ClauseTypeOk(df, condition[j])
             THEN Raises(c, "ComputeError")
        ELSE LET t == FilterRowsResult(df, condition)
             IN  /\ call' = c
                 /\ df' = t
                 /\ report' = [NoReport EXCEPT !.initial_rows = Height(df),
                                               !.removed_rows = Height(df) - Height(t)]
                 \* removed_rows/initial_rows*100 in the report line
                 /\ outcome' = IF Height(df) = 0 THEN "ZeroDivisionError" ELSE "ok"
                 /\ UNCHANGED <<source, dirs, files, written>>

\* Mutant: no skip of the empty Table, whose null ratio divides by zero.
remove_high_null_columns_NoEmptySkip(threshold) ==
    LET c == [Calling("remove_high_null_columns") EXCEPT !.threshold = threshold]
        keep == ColumnsToKeep(df, threshold)
        removed == ColSet(df) \ Range(keep)
    IN  IF df = NONE THEN Raises(c, NotLoaded)
        ELSE IF Height(df) = 0 THEN Raises(c, "ZeroDivisionError")
        ELSE IF removed # {}
             THEN Returns(c, Select(df, keep), [NoReport EXCEPT !.removed_cols = removed])
        ELSE Returns(c, df, NoReport)

remove_high_null_columns(threshold) ==
    LET c == [Calling("remove_high_null_columns") EXCEPT !.threshold = threshold]
        keep == ColumnsToKeep(df, threshold)
        removed == ColSet(df) \ Range(keep)
    IN  IF df = NONE THEN Raises(c, NotLoaded)
        ELSE IF Height(df) = 0 THEN Returns(c, df, NoReport)
        ELSE IF removed # {}
             THEN Returns(c, Select(df, keep), [NoReport EXCEPT !.removed_cols = removed])
        ELSE Returns(c, df, NoReport)

add_geographic_aggregations ==
    LET c == Calling("add_geographic_aggregations")
    IN  IF df = NONE THEN Raises(c, NotLoaded)
        ELSE IF ~(AggregationCols \subseteq ColSet(df)) THEN Raises(c, "ColumnNotFoundError")
        ELSE IF AggregationDuplicate(df) THEN Raises(c, "DuplicateError")
        ELSE \E t \in AggregationResults(df) : Returns(c, t, NoReport)

get_dataframe == Returns(Calling("get_dataframe"), df, NoReport)

\* How a write to the disk may end.
WriteResults == {"ok", "OSError"}

\* The file a write creates.  write_parquet and write_csv open the path as
\* given; write_excel opens the workbook at the path with ".xlsx" added when
\* the path has no suffix.
WrittenFile(output_path, format) ==
    IF format = "excel" /\ output_path.suffix = ""
    THEN [output_path EXCEPT !.suffix = ".xlsx"]
    ELSE output_path

\* The directory and every directory above it.
Ancestors(dir) == {SubSeq(dir, 1, k) : k \in 0..Len(dir)}

\* output_file.parent.mkdir(parents=True, exist_ok=True): the directory and
\* its missing ancestors are created, outermost first; creating one may fail
\* (the directory above is not writable, a file has its name), which leaves
\* the ones created before it.  It may fail as well when the directory exists
\* (a directory on the way may not be searched), which creates nothing.
MkdirResults(existing, dir) ==
    {[outcome |-> "ok", dirs |-> existing \cup Ancestors(dir)]}
    \cup {[outcome |-> "OSError", dirs |-> existing]}
    \cup {[outcome |-> "OSError", dirs |-> existing \cup Ancestors(SubSeq(dir, 1, k - 1))] :
            k \in {j \in 1..Len(dir) : SubSeq(dir, 1, j) \notin existing}}

\* Mutant: the parent directory is created before the not-loaded guard.
save_cleaned_data_MkdirBeforeGuard(output_path, format) ==
    /\ call' = [Calling("save_cleaned_data") EXCEPT !.output_path = output_path,
                                                    !.format = format]
    /\ report' = NoReport
    /\ dirs' = dirs \cup Ancestors(output_path.parent)
    /\ IF df = NONE THEN UNCHANGED <<files, written>> /\ outcome' = NotLoaded
       ELSE IF format \in SupportedFormats
       THEN /\ files' = files \cup {WrittenFile(output_path, format)}
            /\ written' = written \cup {WrittenFile(output_path, format)}
            /\ outcome' = "ok"
       ELSE UNCHANGED <<files, written>> /\ outcome' = "ValueError: Unsupported format"
    /\ UNCHANGED <<source, df>>

save_cleaned_data(output_path, format) ==
    LET c == [Calling("save_cleaned_data") EXCEPT !.output_path = output_path,
                                                   !.format = format]
    IN  IF df = NONE THEN Raises(c, NotLoaded)
        ELSE \E made \in MkdirResults(dirs, output_path.parent) :
             /\ call' = c
             /\ report' = NoReport
             /\ dirs' = made.dirs
             \* a mkdir that raises ends the call before the format is looked at
             /\ IF made.outcome # "ok"
                THEN /\ UNCHANGED <<files, written>>
                     /\ outcome' = made.outcome
                ELSE IF format \in SupportedFormats
                THEN \E result \in WriteResults :
                        /\ outcome' = result
                        /\ IF result = "ok"
                           THEN /\ files' = files \cup {WrittenFile(output_path, format)}
                                /\ written' = written \cup {WrittenFile(output_path, format)}
                           \* a write that fails may leave the file it opened
                           ELSE \E left \in {{}, {WrittenFile(output_path, format)}} :
                                    /\ files' = files \cup left
                                    /\ written' = written \cup left
                ELSE /\ UNCHANGED <<files, written>>
                     /\ outcome' = "ValueError: Unsupported format"
             /\ UNCHANGED <<source, df>>

(***************************************************************************)
(* The methods called in any order, with any of the arguments above.       *)
(***************************************************************************)
LoadData == load_data /\ UNCHANGED <<pc, done, dash>>

ShowInfo == show_info /\ UNCHANGED <<pc, done, dash>>

CleanData == clean_data /\ UNCHANGED <<pc, done, dash>>

FilterNecessaryColumns ==
    \E columns \in ColumnLists : filter_necessary_columns(columns) /\ UNCHANGED <<pc, done, dash>>

FilterRows == \E condition \in Conditions : filter_rows(condition) /\ UNCHANGED <<pc, done, dash>>

RemoveHighNullColumns ==
    \E threshold \in Thresholds : remove_high_null_columns(threshold) /\ UNCHANGED <<pc, done, dash>>

AddGeographicAggregations == add_geographic_aggregations /\ UNCHANGED <<pc, done, dash>>

SaveCleanedData ==
    \E output_path \in OutputPaths, format \in Formats :
        save_cleaned_data(output_path, format) /\ UNCHANGED <<pc, done, dash>>

GetDataframe == get_dataframe /\ UNCHANGED <<pc, done, dash>>

Next ==
    \/ LoadData
    \/ ShowInfo
    \/ CleanData
    \/ FilterNecessaryColumns
    \/ FilterRows
    \/ RemoveHighNullColumns
    \/ AddGeographicAggregations
    \/ SaveCleanedData
    \/ GetDataframe

Spec == Init /\ [][Next]_vars

(***************************************************************************)
(* The same, in a world where the workbook may be removed or corrupted     *)
(* between two calls.                                                      *)
(***************************************************************************)
SourceLost ==
    /\ source # NONE
    /\ source' = NONE
    /\ UNCHANGED <<df, dirs, files, written, call, outcome, report, pc, done, dash>>

NextLoad == Next \/ SourceLost

SpecLoad == Init /\ [][NextLoad]_vars

(***************************************************************************)
(* One stage applied, any number of times, to every sheet of a larger set. *)
(***************************************************************************)
NextClean == LoadData \/ CleanData

SpecClean == InitWith(DeepSheets) /\ [][NextClean]_vars

\* clean_data meets a row without a value only once the columns holding its
\* values have been selected away.
NextSelectClean == LoadData \/ FilterNecessaryColumns \/ CleanData

SpecSelectClean == InitWith(SparseSheets) /\ [][NextSelectClean]_vars

\* filter_rows is what leaves a Table of zero rows behind.
NextPrune == LoadData \/ FilterRows \/ RemoveHighNullColumns

SpecPrune == InitWith(SparseSheets) /\ [][NextPrune]_vars

NextFilter == LoadData \/ FilterRows

SpecFilter == InitWith(DeepSheets \cup PopSheets) /\ [][NextFilter]_vars

NextAggregate == LoadData \/ FilterRows \/ AddGeographicAggregations

SpecAggregate == InitWith(DeepSheets) /\ [][NextAggregate]_vars

\* Aggregations with clean_data in between, on sheets in which two spellings
\* of one state name differ by whitespace only: the trim changes key values
\* under derived columns that are already there.
RowX == Row(I(4), I(3), S(<<"c">>), I(1), S(<<"m">>), I(11), S(<<" ", "x">>))

RowY == Row(I(5), I(4), S(<<"d">>), I(1), S(<<"m">>), I(11), S(<<" ", "x">>))

StateSheets == SheetsOf({RowA, RowB, RowX, RowY}, MaxDeepRows)

NextReaggregate == LoadData \/ CleanData \/ AddGeographicAggregations

SpecReaggregate == InitWith(StateSheets) /\ [][NextReaggregate]_vars

(***************************************************************************)
(* main(): the methods called one after the other on one cleaner, in a     *)
(* directory that may hold the output files of an earlier run.  An         *)
(* exception is not caught: it ends main().                                *)
(***************************************************************************)
MainThreshold == 50

ParquetPath ==
    [parent |-> CurrentDir, name |-> "favelas_comunidades_2022_cleaned", suffix |-> ".parquet"]

CsvPath == [parent |-> CurrentDir, name |-> "favelas_comunidades_2022_cleaned", suffix |-> ".csv"]

MainOutputs == {ParquetPath, CsvPath}

\* A row that is valid but for its whitespace-only name.
RowW == Row(I(4), I(3), S(<<" ">>), I(3), S(<<"p">>), I(13), S(<<"z">>))

MainSheets == SheetsOf(RowPool \cup {RowF, RowW}, MaxDeepRows)

InitMain ==
    /\ Constructed(MainSheets)
    /\ files \in SUBSET MainOutputs
    /\ pc = "load_data"
    /\ done = <<>>

\* Mutant: an exception is caught and main() goes on with the next statement.
Continue_CatchAndContinue(to) ==
    /\ pc' = to
    /\ done' = IF outcome' = "ok" THEN Append(done, call'.op) ELSE done
    /\ UNCHANGED dash

\* main() goes on to the statement at to when the call returned, and ends
\* when it raised.
Continue(to) ==
    /\ pc' = IF outcome' = "ok" THEN to ELSE "failed"
    /\ done' = IF outcome' = "ok" THEN Append(done, call'.op) ELSE done
    /\ UNCHANGED dash

MainLoadData == pc = "load_data" /\ load_data /\ Continue("show_info")

MainShowInfo == pc = "show_info" /\ show_info /\ Continue("clean_data")

MainCleanData == pc = "clean_data" /\ clean_data /\ Continue("remove_high_null_columns")

MainRemoveHighNullColumns ==
    /\ pc = "remove_high_null_columns"
    /\ remove_high_null_columns(MainThreshold)
    /\ Continue("filter_rows")

MainFilterRows ==
    /\ pc = "filter_rows"
    /\ filter_rows(QualityFilter)
    /\ Continue("add_geographic_aggregations")

MainAddGeographicAggregations ==
    /\ pc = "add_geographic_aggregations"
    /\ add_geographic_aggregations
    /\ Continue("get_dataframe")

\* df = cleaner.get_dataframe() and the summary printed from it.
MainGetDataframe == pc = "get_dataframe" /\ get_dataframe /\ Continue("save_parquet")

MainSaveParquet ==
    /\ pc = "save_parquet"
    /\ save_cleaned_data(ParquetPath, "parquet")
    /\ Continue("save_csv")

MainSaveCsv ==
    /\ pc = "save_csv"
    /\ save_cleaned_data(CsvPath, "csv")
    /\ Continue("returned")

NextMain ==
    \/ MainLoadData
    \/ MainShowInfo
    \/ MainCleanData
    \/ MainRemoveHighNullColumns
    \/ MainFilterRows
    \/ MainAddGeographicAggregations
    \/ MainGetDataframe
    \/ MainSaveParquet
    \/ MainSaveCsv

SpecMain == InitMain /\ [][NextMain]_vars

(***************************************************************************)
(* The dashboard (src/dashboard/main.py).  Streamlit runs main() from top  *)
(* to bottom after every interaction, with the values the widgets hold:    *)
(* one action is one such run.                                             *)
(***************************************************************************)
MaxDashRows == 3

\* Rows the cleaner may have persisted: two of state "x", one of state "y";
\* the letter m occurs in a municipality name (in upper case) and in a
\* community name.
DashA == Row(I(1), I(1), S(<<"a">>), I(1), S(<<"M", "n">>), I(11), S(<<"x">>))

DashB == Row(I(2), I(2), S(<<"b", "m">>), I(1), S(<<"n">>), I(11), S(<<"x">>))

DashC == Row(I(3), I(1), S(<<"a">>), I(2), S(<<"n">>), I(12), S(<<"y">>))

DashFiles == {Table(Schema, SchemaTypes, rows) : rows \in SeqsUpTo({DashA, DashB, DashC}, MaxDashRows)}

\* What the user may type in the search field: nothing, a letter in either
\* case, and two characters the regular-expression engine gives a meaning.
Queries == {<<>>, <<"m">>, <<"M">>, <<".">>, <<"(">>}

\* The pages that draw charts, and how drawing one may end: drawn, stopped
\* by st.stop() (a second data file is missing), or an exception.
ChartPages == {"show_overview", "show_geographic_distribution", "show_municipal_analysis",
               "show_community_analysis", "show_inequality_analysis"}

ChartOutcomes == {"ok", "stopped", "error"}

\* str.to_lowercase(), on the letters used here.
LowerChar(ch) ==
    IF ch = "A" THEN "a" ELSE IF ch = "B" THEN "b" ELSE IF ch = "M" THEN "m"
    ELSE IF ch = "N" THEN "n" ELSE ch

ToLowercase(x) == [a \in 1..Len(x) |-> LowerChar(x[a])]

\* str.contains(q) takes q as a regular expression (literal=False is the
\* default): "." stands for any character, an unclosed "(" does not compile.
RegexValid(q) == "(" \notin Range(q)

Contains(x, q) ==
    \E a \in 0..(Len(x) - Len(q)) : \A b \in 1..Len(q) : q[b] = "." \/ x[a + b] = q[b]

\* pl.col(c).str.to_lowercase().str.contains(q): null on a null value.
NameContains(v, q) == v.k = "str" /\ Contains(ToLowercase(v.s), q)

\* state_options = sorted(df['NM_UF'].unique().to_list())
StateOptions(t) == {t.rows[j]["NM_UF"] : j \in 1..Height(t)}

\* filtered_df.filter(pl.col('NM_UF').is_in(selected_states))
FilterStates(t, selected_states) ==
    IF selected_states # {}
    THEN FilterAt(t, {j \in 1..Height(t) : t.rows[j]["NM_UF"] \in selected_states})
    ELSE t

\* filtered_df.filter(NM_MUN contains q | NM_FCU contains q)
FilterQuery(t, q) ==
    FilterAt(t, {j \in 1..Height(t) :
                    NameContains(t.rows[j]["NM_MUN"], q) \/ NameContains(t.rows[j]["NM_FCU"], q)})

\* show_data_explorer(df) with the widgets holding selected_states and query:
\* the record of the run d, completed.
show_data_explorer(d, selected_states, query) ==
    LET by_state == FilterStates(d.df, selected_states)
        q == ToLowercase(query)
        \* st.write(f"**Mostrando {len(filtered_df)} registros de {len(df)}**")
        run == [d EXCEPT !.page = "show_data_explorer",
                         !.selected_states = selected_states, !.query = query,
                         !.announced = <<Height(by_state), Height(d.df)>>]
    IN  IF query # <<>> /\ ~RegexValid(q)
        THEN [run EXCEPT !.outcome = "ComputeError"]
        ELSE LET filtered_df == IF query # <<>> THEN FilterQuery(by_state, q) ELSE by_state
             IN  [run EXCEPT !.shown = filtered_df, !.csv = filtered_df, !.outcome = "ok"]

\* Mutant: the table read is written back without its last row.
Loaded_WritesBack(d) ==
    LET t == [d.file EXCEPT !.rows = SubSeq(d.file.rows, 1, Len(d.file.rows) - 1)]
    IN  [NoDash EXCEPT !.file = t, !.df = t]

\* df = load_data("favelas_comunidades_2022_cleaned.parquet"): a run starts
\* from the widgets' values and the table read from the file.
Loaded(d) == [NoDash EXCEPT !.file = d.file, !.df = d.file]

Idle == UNCHANGED <<source, df, dirs, files, written, call, outcome, report, pc, done>>

\* The file is missing: st.error, st.info, st.stop().
DashboardStops ==
    /\ dash.file = NONE
    /\ dash' = [NoDash EXCEPT !.outcome = "stopped"]
    /\ Idle

ShowCharts ==
    /\ dash.file # NONE
    /\ \E page \in ChartPages, result \in ChartOutcomes :
            dash' = [Loaded(dash) EXCEPT !.page = page, !.outcome = result]
    /\ Idle

ShowDataExplorer ==
    /\ dash.file # NONE
    /\ \E selected_states \in SUBSET StateOptions(dash.file), query \in Queries :
            dash' = show_data_explorer(Loaded(dash), selected_states, query)
    /\ Idle

InitDash ==
    /\ source = NONE
    /\ df = NONE
    /\ dirs = {CurrentDir}
    /\ files = {}
    /\ written = {}
    /\ call = NoCall
    /\ outcome = "ok"
    /\ report = NoReport
    /\ pc = ""
    /\ done = <<>>
    /\ dash \in {[NoDash EXCEPT !.file = f] : f \in DashFiles \cup {NONE}}

NextDash == DashboardStops \/ ShowCharts \/ ShowDataExplorer

SpecDash == InitDash /\ [][NextDash]_vars

(***************************************************************************)
(* Properties.                                                             *)
(***************************************************************************)
Stages == {"show_info", "clean_data", "filter_necessary_columns", "filter_rows",
           "remove_high_null_columns", "add_geographic_aggregations",
           "save_cleaned_data"}

Completed(op) == call.op = op /\ outcome = "ok"

\* C1: while the Table is absent, every stage called has failed with the
\* not-loaded error, the pipeline is still unloaded, and no file and no
\* directory has been created.
C1_UnloadedStagesFail ==
    df = NONE =>
        /\ call.op \in Stages => outcome = NotLoaded
        /\ files = {}
        /\ dirs = {CurrentDir}

C1_Witness ==
    /\ df = NONE
    /\ call.op = "save_cleaned_data"
    /\ call.format = "parquet"
    /\ outcome = NotLoaded

\* C2 (as claimed): once load_data has succeeded, clean_data never fails,
\* whichever stages ran before it.  Every sheet has the CD_SETOR column, so a
\* failure can only come from the stages that ran in between.
C2_CleanDataNeverFailsOnceLoaded ==
    df # NONE /\ call.op = "clean_data" => outcome = "ok"

\* C3: after clean_data has completed, no row of the Table is null in every
\* column.
C3_NoAllNullRow ==
    Completed("clean_data") =>
        \A j \in 1..Len(df.rows) : \E c \in Range(df.cols) : df.rows[j][c].k # "null"

C3_Witness ==
    /\ Completed("clean_data")
    /\ report.null_removed > 0
    /\ Len(df.rows) > 0

Key(r) == r["CD_SETOR"]

\* C4 (as claimed): after clean_data has completed, no two rows of the Table
\* carry the same CD_SETOR value (null counting as one value).
C4_KeyCarriedByOneRow ==
    Completed("clean_data") =>
        \A j, k \in 1..Len(df.rows) : j # k => Key(df.rows[j]) # Key(df.rows[k])

\* The rows clean_data would leave if the deduplication kept the first row of
\* each key in the original order: the first occurrences that are not all
\* null, trimmed.
FirstRowsCleaned(t) ==
    StripStringCols(
        FilterAt(t, {j \in 1..Len(t.rows) :
                        /\ \A k \in 1..(j - 1) : Key(t.rows[k]) # Key(t.rows[j])
                        /\ \E c \in Range(t.cols) : t.rows[j][c].k # "null"}))

\* C5 (as claimed): clean_data keeps, for each CD_SETOR value, the first row
\* carrying it, and the surviving rows keep their original relative order.
C5_KeepsFirstRowInOrder ==
    [][call'.op = "clean_data" /\ outcome' = "ok" => df'.rows = FirstRowsCleaned(df).rows]_vars

NullsIn(t, c) == Cardinality({j \in 1..Len(t.rows) : t.rows[j][c].k = "null"})

\* C6: remove_high_null_columns(threshold) on a Table with at least one row
\* retains a column iff its null count divided by the row count is at most the
\* threshold; a column exactly at the threshold stays.
C6_RetainsIffRatioAtMostThreshold ==
    [][call'.op = "remove_high_null_columns" /\ outcome' = "ok" /\ Len(df.rows) > 0 =>
        \A c \in Range(df.cols) :
            c \in Range(df'.cols) <=> NullsIn(df, c) * 100 <= call'.threshold * Len(df.rows)]_vars

\* Threshold 0.5 has kept a column whose null ratio is exactly 0.5 and removed
\* another column.
C6_Witness ==
    /\ Completed("remove_high_null_columns")
    /\ call.threshold = 50
    /\ report.removed_cols # {}
    /\ \E c \in Range(df.cols) : Len(df.rows) > 0 /\ 2 * NullsIn(df, c) = Len(df.rows)

\* A clause is true of a row: the value is not null and the comparison holds.
ClauseTrue(r, cl) ==
    /\ r[cl.col].k # "null"
    /\ \/ cl.op = ">" /\ r[cl.col].i > cl.val
       \/ cl.op = "<" /\ r[cl.col].i < cl.val
       \/ cl.op = ">=" /\ r[cl.col].i >= cl.val
       \/ cl.op = "<=" /\ r[cl.col].i <= cl.val
       \/ cl.op = "len_chars>" /\ Len(r[cl.col].s) > cl.val

Satisfying(t, condition) ==
    {j \in 1..Len(t.rows) : \A a \in 1..Len(condition) : ClauseTrue(t.rows[j], condition[a])}

\* The a-th smallest position of K.
Nth(K, a) == CHOOSE j \in K : Cardinality({k \in K : k <= j}) = a

PopRows(vs) == [a \in 1..Len(vs) |-> [population |-> I(vs[a])]]

\* C7: filter_rows(condition) replaces the Table by exactly the rows that
\* satisfy every clause of the condition, in their original order, with the
\* columns unchanged; on the population rows -5, 100, 25000000, 500 the range
\* predicate leaves 100, 500.
C7_KeepsExactlySatisfyingRows ==
    [][call'.op = "filter_rows" /\ outcome' \in {"ok", "ZeroDivisionError"} =>
        LET K == Satisfying(df, call'.condition)
        IN  /\ df'.cols = df.cols
            /\ Len(df'.rows) = Cardinality(K)
            /\ \A a \in 1..Len(df'.rows) : df'.rows[a] = df.rows[Nth(K, a)]
            /\ (df.rows = PopRows(<<-5, 100, 25000000, 500>>)
                    /\ call'.condition = PopulationRange)
                => df'.rows = PopRows(<<100, 500>>)]_vars

C7_Witness ==
    /\ Completed("filter_rows")
    /\ call.condition = PopulationRange
    /\ source.rows = PopRows(<<-5, 100, 25000000, 500>>)
    /\ report.initial_rows = 4
    /\ report.removed_rows = 2
    /\ df.rows = PopRows(<<100, 500>>)

\* C8 (as claimed): filter_rows called again with the same predicate right
\* after it completed completes too and leaves the same Table.
C8_FilterRowsIdempotent ==
    [][call.op = "filter_rows" /\ outcome = "ok" /\ call' = call =>
        outcome' = "ok" /\ df' = df]_vars

Restrict(r, cols) == [c \in cols |-> r[c]]

Occurrences(rows, r) == Cardinality({j \in 1..Len(rows) : rows[j] = r})

HasNull(r, keys) == \E c \in Range(keys) : r[c].k = "null"

\* C9: add_geographic_aggregations leaves the row count unchanged and every
\* row's original column values unchanged (each original row occurs as often
\* as before), appends five columns, and gives a row with a null key value
\* nulls in the columns derived by that key.
C9_RowsKept ==
    [][call'.op = "add_geographic_aggregations" /\ outcome' = "ok" =>
        LET n == Len(df.cols)
            old == [j \in 1..Len(df'.rows) |-> Restrict(df'.rows[j], Range(df.cols))]
        IN  /\ Len(df'.rows) = Len(df.rows)
            /\ \A r \in Range(df.rows) \cup Range(old) :
                    Occurrences(old, r) = Occurrences(df.rows, r)
            /\ Len(df'.cols) = n + 5
            /\ SubSeq(df'.cols, 1, n) = df.cols
            /\ \A j \in 1..Len(df'.rows) :
                    /\ HasNull(df'.rows[j], MunKeys) =>
                            \A a \in 1..2 : df'.rows[j][df'.cols[n + a]] = Null
                    /\ HasNull(df'.rows[j], UfKeys) =>
                            \A a \in 3..5 : df'.rows[j][df'.cols[n + a]] = Null]_vars

C9_Witness ==
    /\ Completed("add_geographic_aggregations")
    /\ \E j, k \in 1..Len(df.rows) :
            /\ df.rows[j]["NM_UF"] = Null
            /\ df.rows[j]["CD_FCU"] # Null
            /\ df.rows[j]["total_fcu_uf"] = Null
            /\ df.rows[k]["total_fcu_uf"] # Null

\* The number of distinct values of column c among the rows of t that share
\* row r's values in the key columns.
DistinctInGroup(t, r, keys, c) ==
    Cardinality({t.rows[k][c] :
                    k \in {k \in 1..Len(t.rows) :
                              \A x \in Range(keys) : t.rows[k][x] = r[x]}})

DerivedAsCounted(t, r) ==
    /\ r["total_fcu_uf"] = I(DistinctInGroup(t, r, UfKeys, "CD_FCU"))
    /\ r["total_setores_uf"] = I(DistinctInGroup(t, r, UfKeys, "CD_SETOR"))
    /\ r["total_municipios_uf"] = I(DistinctInGroup(t, r, UfKeys, "CD_MUN"))
    /\ r["total_fcu_mun"] = I(DistinctInGroup(t, r, MunKeys, "CD_FCU"))
    /\ r["total_setores_mun"] = I(DistinctInGroup(t, r, MunKeys, "CD_SETOR"))

\* C10 (as claimed): after add_geographic_aggregations, every row's derived
\* columns equal the distinct counts among the rows sharing its state, and its
\* municipality.
C10_DerivedCountsOnEveryRow ==
    Completed("add_geographic_aggregations") =>
        \A j \in 1..Len(df.rows) : DerivedAsCounted(df, df.rows[j])

DerivedCols ==
    {"total_fcu_mun", "total_setores_mun", "total_fcu_uf", "total_setores_uf",
     "total_municipios_uf"}

\* C10 (amended): after add_geographic_aggregations on a Table that carried
\* none of the derived columns, every row whose key values are all non-null
\* has the distinct counts (null counting as one value) of its state and of
\* its municipality; a row with a null key value has nulls instead.
C10_DerivedCountsOnKeyedRows ==
    [][/\ call'.op = "add_geographic_aggregations"
       /\ outcome' = "ok"
       /\ Range(df.cols) \cap DerivedCols = {}
       => \A j \in 1..Len(df'.rows) :
            LET r == df'.rows[j]
            IN  /\ IF HasNull(r, UfKeys)
                   THEN /\ r["total_fcu_uf"] = Null
                        /\ r["total_setores_uf"] = Null
                        /\ r["total_municipios_uf"] = Null
                   ELSE /\ r["total_fcu_uf"] = I(DistinctInGroup(df', r, UfKeys, "CD_FCU"))
                        /\ r["total_setores_uf"] = I(DistinctInGroup(df', r, UfKeys, "CD_SETOR"))
                        /\ r["total_municipios_uf"] = I(DistinctInGroup(df', r, UfKeys, "CD_MUN"))
                /\ IF HasNull(r, MunKeys)
                   THEN /\ r["total_fcu_mun"] = Null
                        /\ r["total_setores_mun"] = Null
                   ELSE /\ r["total_fcu_mun"] = I(DistinctInGroup(df', r, MunKeys, "CD_FCU"))
                        /\ r["total_setores_mun"] = I(DistinctInGroup(df', r, MunKeys, "CD_SETOR"))]_vars

\* Two rows of one state with distinct sectors carry 2, a row alone in its
\* state carries 1, and the columns are the ones this call derived.
C10_Witness ==
    /\ Completed("add_geographic_aggregations")
    /\ "total_setores_uf_right" \notin Range(df.cols)
    /\ \E j, k \in 1..Len(df.rows) :
            /\ df.rows[j]["total_setores_uf"] = I(2)
            /\ df.rows[j]["total_fcu_uf"] = I(2)
            /\ df.rows[k]["total_setores_uf"] = I(1)

\* C12 (as claimed): save_cleaned_data on a loaded Table with a format tag
\* other than parquet, csv or excel ends with the unsupported-format error,
\* and no output file is created or overwritten by the call.
C12_UnsupportedFormatWritesNoFile ==
    [][/\ call'.op = "save_cleaned_data"
       /\ df # NONE
       /\ call'.format \notin SupportedFormats
       => /\ outcome' = "ValueError: Unsupported format"
          /\ files' = files
          /\ written' = written]_vars

\* C13: a load_data that raises changes neither the Table reference, nor the
\* directories, nor the files; and after a failed load_data on a pipeline that
\* was never loaded, the stage called next fails with the not-loaded error and
\* the pipeline is still unloaded.
C13_FailedLoadChangesNothing ==
    [][/\ (call'.op = "load_data" /\ outcome' # "ok")
            => df' = df /\ dirs' = dirs /\ files' = files /\ written' = written
       /\ (call.op = "load_data" /\ outcome # "ok" /\ df = NONE /\ call'.op \in Stages)
            => outcome' = NotLoaded /\ df' = NONE]_vars

\* A second load_data failed on a loaded pipeline, which still holds the
\* Table of the first.
C13_Witness ==
    /\ call.op = "load_data"
    /\ outcome = "FileNotFoundError"
    /\ df # NONE
    /\ Len(df.rows) > 0

\* C14: remove_high_null_columns on a loaded Table with zero rows completes
\* and leaves the Table as it was, whatever the threshold.
C14_EmptyTableSkipped ==
    [][/\ call'.op = "remove_high_null_columns"
       /\ df # NONE
       /\ Len(df.rows) = 0
       => outcome' = "ok" /\ df' = df]_vars

\* The strictest threshold was applied to a Table that filter_rows had
\* emptied, whose columns are all still there.
C14_Witness ==
    /\ Completed("remove_high_null_columns")
    /\ call.threshold = 0
    /\ Len(df.rows) = 0
    /\ df.cols = Schema
    /\ Len(DropEmptyRows(source).rows) > 0

\* C15 (as claimed): on every loaded Table, one with zero rows included,
\* filter_rows with a predicate over columns of the Table completes, and the
\* rows it reports as removed plus the rows it retains are the rows the Table
\* had before the call.
C15_FilterRowsCompletesAndReports ==
    [][/\ call'.op = "filter_rows"
       /\ df # NONE
       /\ ConditionCols(call'.condition) \subseteq ColSet(df)
       /\ \A j \in 1..Len(call'.condition) : ClauseTypeOk(df, call'.condition[j])
       => /\ outcome' = "ok"
          /\ report'.initial_rows = Len(df.rows)
          /\ report'.removed_rows + Len(df'.rows) = Len(df.rows)]_vars

PositionIn(q, x) == CHOOSE j \in 1..Len(q) : q[j] = x

\* C16: filter_necessary_columns with a list of which some names are in the
\* Table and some are not completes; the Table is left with exactly the
\* requested names it had, in the order of the request, and every row keeps
\* its position and its values in those columns.
C16_AbsentNamesDropped ==
    [][/\ call'.op = "filter_necessary_columns"
       /\ df # NONE
       /\ Range(call'.columns) \cap Range(df.cols) # {}
       /\ Range(call'.columns) \ Range(df.cols) # {}
       => /\ outcome' = "ok"
          /\ Range(df'.cols) = Range(call'.columns) \cap Range(df.cols)
          /\ \A a, b \in 1..Len(df'.cols) :
                a < b => PositionIn(call'.columns, df'.cols[a])
                            < PositionIn(call'.columns, df'.cols[b])
          /\ Len(df'.rows) = Len(df.rows)
          /\ \A j \in 1..Len(df.rows) :
                df'.rows[j] = Restrict(df.rows[j], Range(df'.cols))]_vars

\* CD_FCU, GINI, CD_SETOR was requested of a sheet with rows: GINI was dropped
\* and CD_FCU comes before CD_SETOR.
C16_Witness ==
    /\ Completed("filter_necessary_columns")
    /\ call.columns = <<"CD_FCU", "GINI", "CD_SETOR">>
    /\ df.cols = <<"CD_FCU", "CD_SETOR">>
    /\ Len(source.cols) > 2
    /\ Len(df.rows) = 2

\* C17: filter_necessary_columns leaves the Table as it was, columns and rows,
\* when the request is empty (no list, or an empty list) and when none of the
\* requested names is a column of the Table.
C17_NothingToSelectPassesThrough ==
    [][/\ call'.op = "filter_necessary_columns"
       /\ df # NONE
       /\ Range(call'.columns) \cap Range(df.cols) = {}
       => outcome' = "ok" /\ df' = df]_vars

\* Only GINI was requested of a sheet with two rows, which has all its
\* columns and rows still.
C17_Witness ==
    /\ Completed("filter_necessary_columns")
    /\ call.columns = <<"GINI">>
    /\ df = source
    /\ df.cols = Schema
    /\ Len(df.rows) = 2

FullyNull(r) == \A c \in DOMAIN r : r[c].k = "null"

\* The Table t is made of row r, exact duplicates of r and fully-null rows.
MadeOf(t, r) ==
    /\ ~FullyNull(r)
    /\ r \in Range(t.rows)
    /\ \A j \in 1..Len(t.rows) : t.rows[j] = r \/ FullyNull(t.rows[j])

\* C18 (as claimed): clean_data on a Table made of one row that is not fully
\* null, any number of exact duplicates of it and any number of fully-null
\* rows leaves exactly that one row (with its strings trimmed).
C18_DuplicatesAndNullRowsCleanToOneRow ==
    [][call'.op = "clean_data" /\ outcome' = "ok" =>
        \A r \in Range(df.rows) :
            MadeOf(df, r) => df'.rows = StripStringCols([df EXCEPT !.rows = <<r>>]).rows]_vars

\* A string value that neither starts nor ends with whitespace.
Trimmed(v) ==
    v.k = "str" /\ v.s # <<>> => v.s[1] \notin Whitespace /\ v.s[Len(v.s)] \notin Whitespace

\* C19: after clean_data no value of a string-typed column starts or ends
\* with whitespace; and the Table has as many rows as the deduplication and
\* the all-null filter left, each with the values they left in the columns
\* that are not string-typed.
C19_StringsTrimmedRowsKept ==
    [][call'.op = "clean_data" /\ outcome' = "ok" =>
        /\ \A j \in 1..Len(df'.rows) : \A c \in Range(df'.cols) :
                df'.dtypes[c] = "String" => Trimmed(df'.rows[j][c])
        /\ \E u \in UniqueResults(df, "CD_SETOR") :
                LET v == DropAllNullRows(u)
                IN  /\ Len(df'.rows) = Len(v.rows)
                    /\ \A j \in 1..Len(v.rows) : \A c \in Range(v.cols) :
                            v.dtypes[c] # "String" => df'.rows[j][c] = v.rows[j][c]]_vars

\* The row loaded with the name " m" is in the cleaned Table with the name
\* "m" and its codes, next to a row whose blank name became empty.
C19_Witness ==
    /\ Completed("clean_data")
    /\ RowB \in Range(source.rows)
    /\ [RowB EXCEPT !["NM_MUN"] = S(<<"m">>)] \in Range(df.rows)
    /\ \E j \in 1..Len(df.rows) : df.rows[j]["NM_FCU"] = S(<<>>)

\* C11 (as claimed): when a call of main() has raised, that call is the last
\* one made, and the run has created or overwritten neither
\* favelas_comunidades_2022_cleaned.parquet nor
\* favelas_comunidades_2022_cleaned.csv.
C11_FailedRunWritesNoFile ==
    pc = "failed" => outcome # "ok" /\ written = {}

\* The calls of main(), in the order of its statements.
MainOrder ==
    <<"load_data", "show_info", "clean_data", "remove_high_null_columns", "filter_rows",
      "add_geographic_aggregations", "get_dataframe", "save_cleaned_data",
      "save_cleaned_data">>

\* C20: main() calls load_data, show_info, clean_data,
\* remove_high_null_columns (threshold 0.5), filter_rows,
\* add_geographic_aggregations and save_cleaned_data in this order, each call
\* made only when every call before it has returned; and both output files
\* have been written only when add_geographic_aggregations has returned.
C20_StagesInStrictOrder ==
    [][/\ outcome = "ok"
       /\ call'.op = MainOrder[Len(done) + 1]
       /\ done = SubSeq(MainOrder, 1, Len(done))
       /\ call'.op = "remove_high_null_columns" => call'.threshold = MainThreshold
       /\ MainOutputs \subseteq written' => "add_geographic_aggregations" \in Range(done)]_vars

\* main() has returned: every call was made, and both files were written by
\* this run, with the derived columns.
C20_Witness ==
    /\ pc = "returned"
    /\ done = MainOrder
    /\ written = MainOutputs
    /\ files = MainOutputs
    /\ "total_fcu_uf" \in Range(df.cols)
    /\ Len(df.rows) = 3

\* The quality predicate of a row: the four codes are positive, CD_UF lies in
\* 11..53, and the three names are not empty once trimmed.
QualityRow(r) ==
    /\ \A c \in {"CD_SETOR", "CD_FCU", "CD_MUN", "CD_UF"} : r[c].k = "int" /\ r[c].i > 0
    /\ r["CD_UF"].i \in 11..53
    /\ \A c \in {"NM_FCU", "NM_MUN", "NM_UF"} : r[c].k = "str" /\ LStrip(r[c].s) # <<>>

\* C21: in a run of main(), from the moment filter_rows has returned, every
\* row of the Table satisfies the quality predicate; so does every row of the
\* Table the two saves persist when main() returns.
C21_PersistedRowsSatisfyQuality ==
    "filter_rows" \in Range(done) =>
        \A j \in 1..Len(df.rows) : QualityRow(df.rows[j])

\* main() has returned on a sheet that held the row with the whitespace-only
\* name: the Table persisted has rows, and that row is not one of them.
C21_Witness ==
    /\ pc = "returned"
    /\ written = MainOutputs
    /\ RowW \in Range(source.rows)
    /\ Len(df.rows) = 2
    /\ \A j \in 1..Len(df.rows) : df.rows[j]["CD_SETOR"] # RowW["CD_SETOR"]

\* C22: show_info on a loaded Table, one with zero rows included, returns
\* and leaves the Table (columns, rows, order) and everything else a stage
\* reads as they were; a sequence of stages therefore yields the same Table
\* with show_info calls inserted as without them.
C22_ShowInfoChangesNothing ==
    [][call'.op = "show_info" /\ df # NONE =>
        /\ outcome' = "ok"
        /\ df' = df
        /\ UNCHANGED <<source, dirs, files, written>>]_vars

\* show_info has returned on a Table that has columns and no rows.
C22_Witness ==
    /\ Completed("show_info")
    /\ Len(df.cols) > 0
    /\ Len(df.rows) = 0
    /\ Len(source.rows) > 0

\* C24 (as claimed): a stage called on a loaded pipeline never increases the
\* row count of the Table: clean_data and filter_rows leave at most the rows
\* there were, and show_info, filter_necessary_columns,
\* remove_high_null_columns, add_geographic_aggregations and
\* save_cleaned_data leave as many rows as there were.
C24_RowCountNeverIncreases ==
    [][df # NONE /\ call'.op \in Stages =>
        IF call'.op \in {"clean_data", "filter_rows"}
        THEN Len(df'.rows) <= Len(df.rows)
        ELSE Len(df'.rows) = Len(df.rows)]_vars

\* C25 (as claimed): remove_high_null_columns changes only the set of
\* columns, also when it removes every column: the row count, the order of
\* the rows, the relative order of the retained columns and every value of a
\* retained column are as before.
C25_PruneChangesOnlyColumns ==
    [][call'.op = "remove_high_null_columns" /\ outcome' = "ok" =>
        /\ Len(df'.rows) = Len(df.rows)
        /\ Range(df'.cols) \subseteq Range(df.cols)
        /\ \A a, b \in 1..Len(df'.cols) :
                a < b => PositionIn(df.cols, df'.cols[a]) < PositionIn(df.cols, df'.cols[b])
        /\ \A j \in 1..Len(df.rows) :
                df'.rows[j] = Restrict(df.rows[j], Range(df'.cols))]_vars

NoNullKeys(t) == \A j \in 1..Len(t.rows) : ~HasNull(t.rows[j], MunKeys)

\* The derived columns of t are ordered and agree within a state.
DerivedOrdered(t) ==
        /\ \A j \in 1..Len(t.rows) :
                LET r == t.rows[j]
                IN  /\ \A c \in DerivedCols : r[c].k = "int"
                    /\ 1 <= r["total_fcu_mun"].i
                    /\ r["total_fcu_mun"].i <= r["total_fcu_uf"].i
                    /\ 1 <= r["total_setores_mun"].i
                    /\ r["total_setores_mun"].i <= r["total_setores_uf"].i
                    /\ r["total_municipios_uf"].i >= 1
        /\ \A j, k \in 1..Len(t.rows) :
                KeyOf(t.rows[j], UfKeys) = KeyOf(t.rows[k], UfKeys) =>
                    \A c \in {"total_fcu_uf", "total_setores_uf", "total_municipios_uf"} :
                        t.rows[j][c] = t.rows[k][c]

\* C26 (as claimed): after add_geographic_aggregations on a Table without a
\* null in a key column, every row has 1 <= total_fcu_mun <= total_fcu_uf,
\* 1 <= total_setores_mun <= total_setores_uf and total_municipios_uf >= 1,
\* and two rows of the same (CD_UF, NM_UF) carry the same three state-level
\* values.
C26_DerivedCountsOrdered ==
    [][call'.op = "add_geographic_aggregations" /\ outcome' = "ok" /\ NoNullKeys(df) =>
        DerivedOrdered(df')]_vars

\* C26 (amended): the same after add_geographic_aggregations on a Table that
\* has no null in a key column and carried none of the derived columns.
C26_FirstDerivedCountsOrdered ==
    [][/\ call'.op = "add_geographic_aggregations"
       /\ outcome' = "ok"
       /\ NoNullKeys(df)
       /\ Range(df.cols) \cap DerivedCols = {}
       => DerivedOrdered(df')]_vars

\* Three rows without null keys were aggregated: two of one state, under two
\* municipality keys with one community each, carry 1 at municipality level
\* and 2 at state level.
C26_Witness ==
    /\ Completed("add_geographic_aggregations")
    /\ NoNullKeys(df)
    /\ "total_fcu_uf_right" \notin Range(df.cols)
    /\ Len(df.rows) = 3
    /\ \E j, k \in 1..Len(df.rows) :
            /\ j # k
            /\ KeyOf(df.rows[j], UfKeys) = KeyOf(df.rows[k], UfKeys)
            /\ df.rows[j]["total_fcu_mun"] = I(1)
            /\ df.rows[j]["total_fcu_uf"] = I(2)
            /\ df.rows[k]["total_fcu_uf"] = I(2)

\* C27 (as claimed): a save_cleaned_data that fails with the unsupported-
\* format error leaves the file system as it was: no output file and no
\* parent directory of the output path has been created.
C27_UnsupportedFormatLeavesFileSystem ==
    [][call'.op = "save_cleaned_data" /\ outcome' = "ValueError: Unsupported format" =>
        /\ files' = files
        /\ written' = written
        /\ dirs' = dirs]_vars

\* x contains q, character by character.
ContainsText(x, q) ==
    \E a \in 0..(Len(x) - Len(q)) : \A b \in 1..Len(q) : x[a + b] = q[b]

\* The positions of the rows of t whose NM_UF is one of the selected states
\* (any row when none is selected) and whose NM_MUN or NM_FCU, in lower case,
\* contains the query in lower case.
Selected(t, selected_states, query) ==
    {j \in 1..Len(t.rows) :
        /\ selected_states = {} \/ t.rows[j]["NM_UF"] \in selected_states
        /\ \E c \in {"NM_MUN", "NM_FCU"} :
                /\ t.rows[j][c].k = "str"
                /\ ContainsText(ToLowercase(t.rows[j][c].s), ToLowercase(query))}

\* C28 (as claimed): in the data explorer, whatever the selected states and
\* the query, the count announced is the number of rows of the table
\* displayed, which is the table offered for download and holds exactly the
\* rows of the selected states whose NM_MUN or NM_FCU contains the query, in
\* their order.
C28_AnnouncedCountIsShownRows ==
    dash.page = "show_data_explorer" =>
        LET K == Selected(dash.df, dash.selected_states, dash.query)
        IN  /\ dash.outcome = "ok"
            /\ dash.announced = <<Len(dash.shown.rows), Len(dash.df.rows)>>
            /\ dash.csv = dash.shown
            /\ Len(dash.shown.rows) = Cardinality(K)
            /\ \A a \in 1..Len(dash.shown.rows) : dash.shown.rows[a] = dash.df.rows[Nth(K, a)]

\* C23: a run of the dashboard, whatever the page, the selected states and
\* the query, leaves the parquet file as it was, holds the table it read from
\* it unchanged when the run ends, and creates no file and no directory: what
\* it displays are tables derived from the one loaded.
C23_DashboardWritesNothing ==
    [][/\ dash'.file = dash.file
       /\ dash'.df # NONE => dash'.df = dash.file
       /\ UNCHANGED <<files, written, dirs>>]_vars

\* The explorer has displayed one row of a table of three, which the
\* dashboard still holds whole and the file still contains.
C23_Witness ==
    /\ dash.page = "show_data_explorer"
    /\ dash.outcome = "ok"
    /\ dash.selected_states # {}
    /\ dash.query # <<>>
    /\ Len(dash.shown.rows) = 1
    /\ Len(dash.df.rows) = 3
    /\ dash.file = dash.df
====
